---- MODULE Spec2Model ----
(***************************************************************************)
(* A model of jmt (src/jmt/__main__.py): the translation of a treefmt      *)
(* configuration into a `jj fix` configuration, the wrapper script it      *)
(* synthesizes for tools without stdin support, the merge of the generated *)
(* block into the repository's config.toml, and the control flow of main.  *)
(*                                                                         *)
(* Strings are TLA+ strings; Len, SubSeq and \o act on their characters.   *)
(***************************************************************************)
EXTENDS Integers, Sequences, FiniteSets, TLC

VARIABLES
    \* get_stdin_command / get_inline_command
    sy_pc, name, command, options, wrapper_type, JMT_MKTEMP, filtered_opts, cmd,
    \* one run of the synthesized wrapper script
    sc_pc, mode, tool_exit_zero, stdin, t, stdout, stderr, tool_said, sc_log,
    \* generate_jj_config
    g_pc, treefmt_config, only_tools, rules, lines,
    \* write_jj_config
    w_pc, jj_repo, jj_config, hand_written, last_config, writes, edits,
    \* main
    m_pc, argv, jmt_args, jj_args, m_log, exit_code

sy_vars == <<sy_pc, name, command, options, wrapper_type, JMT_MKTEMP, filtered_opts, cmd>>
sc_vars == <<sc_pc, mode, tool_exit_zero, stdin, t, stdout, stderr, tool_said, sc_log>>
g_vars == <<g_pc, treefmt_config, only_tools, rules, lines>>
w_vars == <<w_pc, jj_repo, jj_config, hand_written, last_config, writes, edits>>
m_vars == <<m_pc, argv, jmt_args, jj_args, m_log, exit_code>>
vars == <<sy_vars, sc_vars, g_vars, w_vars, m_vars>>

(***************************************************************************)
(* Bounds of the model.                                                    *)
(***************************************************************************)
MaxOpts == 2
MaxGlobs == 2
MaxTools == 2
MaxWrites == 2
MaxEdits == 2
MaxArgs == 3

(***************************************************************************)
(* String helpers, as Python's str methods compute them.                   *)
(***************************************************************************)
None == "<None>"

startswith(s, prefix) ==
    /\ Len(s) >= Len(prefix)
    /\ SubSeq(s, 1, Len(prefix)) = prefix

\* s[i:] for a 1-based i
From(s, i) == IF i > Len(s) THEN "" ELSE SubSeq(s, i, Len(s))

\* s[:i-1] for a 1-based i
Before(s, i) == IF i <= 1 THEN "" ELSE SubSeq(s, 1, i - 1)

\* the 1-based positions at which sub occurs in s
Occurrences(s, sub) ==
    {i \in 1..(Len(s) - Len(sub) + 1) : SubSeq(s, i, i + Len(sub) - 1) = sub}

Min(S) == CHOOSE x \in S : \A y \in S : x <= y
Max(S) == CHOOSE x \in S : \A y \in S : x >= y

\* sep.join(items)
RECURSIVE join(_, _)
join(sep, items) ==
    IF Len(items) = 0 THEN ""
    ELSE IF Len(items) = 1 THEN items[1]
    ELSE items[1] \o sep \o join(sep, Tail(items))

\* s.replace(old, new) for a one-character old
RECURSIVE replace(_, _, _)
replace(s, old, new) ==
    IF Occurrences(s, old) = {} THEN s
    ELSE LET i == Min(Occurrences(s, old))
         IN  Before(s, i) \o new \o replace(From(s, i + 1), old, new)

Range(seq) == {seq[i] : i \in 1..Len(seq)}

\* the sequences over S of length at most n
SeqsUpTo(S, n) == UNION {[1..k -> S] : k \in 0..n}

(***************************************************************************)
(* The static lookup tables.                                               *)
(***************************************************************************)
EXCLUDED_TOOLS == {}

PASSTHROUGH_LINTERS == {"shellcheck", "statix"}

STDIN_ARGS ==
    "yamlfmt" :> <<"-">> @@
    "keep-sorted" :> <<"-">> @@
    "tofu" :> <<"-">> @@
    "terraform" :> <<"-">> @@
    "prettier" :> <<"--stdin-filepath=$path">> @@
    "taplo" :> <<"-">> @@
    "ruff" :> <<"--stdin-filename=input.py">> @@
    "mdformat" :> <<"-">> @@
    "shfmt" :> <<"-">> @@
    "typstyle" :> <<>>

NEEDS_WRAPPER == {"deadnix", "ruff-isort", "ruff-check"}

INPLACE_SHORT_FLAG == {"typstyle"}

(***************************************************************************)
(* get_inline_command                                                      *)
(***************************************************************************)
\* faulty variant: the wrapper strips the direct path's flags too
InlineFilterMutant(opts) ==
    SelectSeq(opts, LAMBDA opt : opt \notin {"-w", "--write", "-e", "--edit", "--fix", "--inplace"})

\* filtered_opts = [opt for opt in options if opt not in ["-w", "--write"]]
InlineFilter(opts) ==
    SelectSeq(opts, LAMBDA opt : opt \notin {"-w", "--write"})

\* " ".join(f'"{opt}"' for opt in filtered_opts)
opts_str(filtered) ==
    join(" ", [i \in 1..Len(filtered) |-> "\"" \o filtered[i] \o "\""])

ext_map ==
    "deadnix" :> ".nix" @@
    "statix" :> ".nix" @@
    "shellcheck" :> ".sh" @@
    "ruff-isort" :> ".py" @@
    "ruff-check" :> ".py"

ext(n) == IF n \in DOMAIN ext_map THEN ext_map[n] ELSE ""

\* the script text of either mode
script(n, c, opts, md, mk) ==
    "t=$(" \o mk \o " --suffix=" \o ext(n) \o "); cat >\"$t\"; "
    \o c \o " " \o opts_str(InlineFilter(opts)) \o " \"$t\" "
    \o (IF md = "passthrough" THEN ">&2" ELSE ">/dev/null 2>&1")
    \o " || true; cat \"$t\"; rm \"$t\""

get_inline_command(n, c, opts, md, mk) ==
    <<"bash", "-c", script(n, c, opts, md, mk)>>

(***************************************************************************)
(* get_stdin_command                                                       *)
(***************************************************************************)
\* Path(command).name: the last component, trailing slashes dropped
RECURSIVE rstrip_slash(_)
rstrip_slash(s) ==
    IF Len(s) > 0 /\ SubSeq(s, Len(s), Len(s)) = "/"
    THEN rstrip_slash(Before(s, Len(s)))
    ELSE s

PathName(c) ==
    LET p == rstrip_slash(c)
        slashes == Occurrences(p, "/")
    IN  IF slashes = {} THEN p ELSE From(p, Max(slashes) + 1)

UsesWrapper(n, wt) ==
    \/ wt = "edit" /\ n \in NEEDS_WRAPPER
    \/ wt = "passthrough" /\ n \in PASSTHROUGH_LINTERS

\* the wrapper type generate_jj_config asks for
wrapper_type_of(n) ==
    IF n \in NEEDS_WRAPPER THEN "edit"
    ELSE IF n \in PASSTHROUGH_LINTERS THEN "passthrough"
    ELSE None

\* faulty variant: -i is stripped for every tool
excludeMutant(c) ==
    {"-w", "--write", "-e", "--edit", "--fix", "--inplace", "-i"}

\* the flags the direct path strips for a command
exclude(c) ==
    {"-w", "--write", "-e", "--edit", "--fix", "--inplace"}
    \cup (IF PathName(c) \in INPLACE_SHORT_FLAG THEN {"-i"} ELSE {})

StdinFilter(c, opts) ==
    SelectSeq(opts, LAMBDA opt : opt \notin exclude(c))

\* faulty variant: an unknown tool gets the "-" marker
stdin_suffixMutant(c, filtered) ==
    IF PathName(c) \in DOMAIN STDIN_ARGS THEN STDIN_ARGS[PathName(c)]
    ELSE <<"-">>

\* what follows base_cmd in the returned argv
stdin_suffix(c, filtered) ==
    IF PathName(c) \in DOMAIN STDIN_ARGS THEN STDIN_ARGS[PathName(c)]
    ELSE IF "fmt" \in Range(filtered) /\ PathName(c) \in {"tofu", "terraform"} THEN <<"-">>
    ELSE <<>>

get_stdin_command(n, c, opts, wt, mk) ==
    IF wt = "edit" /\ n \in NEEDS_WRAPPER
    THEN get_inline_command(n, c, opts, "edit", mk)
    ELSE IF wt = "passthrough" /\ n \in PASSTHROUGH_LINTERS
    THEN get_inline_command(n, c, opts, "passthrough", mk)
    ELSE <<c>> \o StdinFilter(c, opts) \o stdin_suffix(c, StdinFilter(c, opts))

(***************************************************************************)
(* Idle values: a specification drives one part of the program and leaves  *)
(* the variables of the others at these values.                            *)
(***************************************************************************)
SyIdle ==
    /\ sy_pc = "idle" /\ name = "" /\ command = "" /\ options = <<>>
    /\ wrapper_type = None /\ JMT_MKTEMP = None /\ filtered_opts = <<>> /\ cmd = <<>>

ScIdle ==
    /\ sc_pc = 0 /\ mode = "" /\ tool_exit_zero = TRUE /\ stdin = "" /\ t = None
    /\ stdout = "" /\ stderr = "" /\ tool_said = "" /\ sc_log = <<>>

(***************************************************************************)
(* The call of get_stdin_command that generate_jj_config makes for a tool,  *)
(* the tool drawn from small sets.                                         *)
(***************************************************************************)
SyNames ==
    {"nixfmt", "typstyle", "prettier", "deadnix", "shellcheck", "myfmt"}

SyCommands ==
    {"nixfmt", "/nix/store/s1-typstyle/bin/typstyle", "bin/prettier", "deadnix",
     "/usr/bin/shellcheck", "tofu"}

Flags ==
    {"-w", "--write", "-e", "--edit", "--fix", "--inplace", "-i", "--tab-width=2", "fmt"}

\* os.environ.get("JMT_MKTEMP", "mktemp")
mktemp_cmd == IF JMT_MKTEMP = None THEN "mktemp" ELSE JMT_MKTEMP

SyInit ==
    /\ sy_pc = "call"
    /\ name \in SyNames
    /\ command \in SyCommands
    /\ options \in SeqsUpTo(Flags, MaxOpts)
    /\ wrapper_type = wrapper_type_of(name)
    /\ JMT_MKTEMP \in {None, "gmktemp"}
    /\ filtered_opts = <<>>
    /\ cmd = <<>>

\* get_stdin_command taking the wrapper branch: get_inline_command runs
CallInline ==
    /\ sy_pc = "call"
    /\ UsesWrapper(name, wrapper_type)
    /\ filtered_opts' = InlineFilter(options)
    /\ cmd' = get_stdin_command(name, command, options, wrapper_type, mktemp_cmd)
    /\ sy_pc' = "returned"
    /\ UNCHANGED <<name, command, options, wrapper_type, JMT_MKTEMP>>
    /\ UNCHANGED <<sc_vars, g_vars, w_vars, m_vars>>

\* get_stdin_command on the direct path
CallDirect ==
    /\ sy_pc = "call"
    /\ ~UsesWrapper(name, wrapper_type)
    /\ filtered_opts' = StdinFilter(command, options)
    /\ cmd' = get_stdin_command(name, command, options, wrapper_type, mktemp_cmd)
    /\ sy_pc' = "returned"
    /\ UNCHANGED <<name, command, options, wrapper_type, JMT_MKTEMP>>
    /\ UNCHANGED <<sc_vars, g_vars, w_vars, m_vars>>

(***************************************************************************)
(* One run of the script get_inline_command writes:                        *)
(*   t=$(mktemp --suffix=E); cat >"$t"; TOOL OPTS "$t" REDIRECT || true;   *)
(*   cat "$t"; rm "$t"                                                     *)
(* The commands are separated by `;` and the script sets no errexit, so    *)
(* each runs whatever the one before it returned.                          *)
(***************************************************************************)
\* faulty variant: the script without its last command
ScriptStepsMutant == <<"mktemp", "cat_in", "tool", "cat_out">>

\* the commands of the script, in the order the shell runs them
ScriptSteps == <<"mktemp", "cat_in", "tool", "cat_out", "rm">>

\* where the tool's standard output and standard error go
ToolOutputTo(md) == IF md = "passthrough" THEN "stderr" ELSE "null"

Contents == {"", "a\n", "b = 1\n"}

Rewrites == {"", "a\n", "fixed\n"}

Diagnostics == {"", "warning: w\n"}

ScInit ==
    /\ sc_pc = 1
    /\ mode \in {"edit", "passthrough"}
    /\ stdin \in Contents
    /\ tool_exit_zero = TRUE
    /\ t = None
    /\ stdout = ""
    /\ stderr = ""
    /\ tool_said = ""
    /\ sc_log = <<>>

ScStep(step) == sc_pc \in 1..Len(ScriptSteps) /\ ScriptSteps[sc_pc] = step

ScAdvance(step) == sc_pc' = sc_pc + 1 /\ sc_log' = Append(sc_log, step)

\* t=$(mktemp --suffix=...): a new, empty file
Mktemp ==
    /\ ScStep("mktemp")
    /\ t' = ""
    /\ ScAdvance("mktemp")
    /\ UNCHANGED <<mode, tool_exit_zero, stdin, stdout, stderr, tool_said>>
    /\ UNCHANGED <<sy_vars, g_vars, w_vars, m_vars>>

\* cat >"$t"
CatIn ==
    /\ ScStep("cat_in")
    /\ t' = stdin
    /\ ScAdvance("cat_in")
    /\ UNCHANGED <<mode, tool_exit_zero, stdin, stdout, stderr, tool_said>>
    /\ UNCHANGED <<sy_vars, g_vars, w_vars, m_vars>>

\* TOOL OPTS "$t" REDIRECT || true: the tool leaves or rewrites the file,
\* prints what it likes and exits with any status
RunTool ==
    /\ ScStep("tool")
    /\ \E after \in {t} \cup Rewrites, said \in Diagnostics, ok \in BOOLEAN :
        /\ t' = after
        /\ tool_said' = said
        /\ tool_exit_zero' = ok
        /\ stderr' = IF ToolOutputTo(mode) = "stderr" THEN stderr \o said ELSE stderr
        /\ stdout' = IF ToolOutputTo(mode) = "stdout" THEN stdout \o said ELSE stdout
    /\ ScAdvance("tool")
    /\ UNCHANGED <<mode, stdin>>
    /\ UNCHANGED <<sy_vars, g_vars, w_vars, m_vars>>

\* cat "$t"
CatOut ==
    /\ ScStep("cat_out")
    /\ IF t = None
       THEN stderr' = stderr \o "cat: No such file or directory\n" /\ stdout' = stdout
       ELSE stdout' = stdout \o t /\ stderr' = stderr
    /\ ScAdvance("cat_out")
    /\ UNCHANGED <<mode, tool_exit_zero, stdin, t, tool_said>>
    /\ UNCHANGED <<sy_vars, g_vars, w_vars, m_vars>>

\* rm "$t"
Rm ==
    /\ ScStep("rm")
    /\ t' = None
    /\ stderr' = IF t = None THEN stderr \o "rm: No such file or directory\n" ELSE stderr
    /\ ScAdvance("rm")
    /\ UNCHANGED <<mode, tool_exit_zero, stdin, stdout, tool_said>>
    /\ UNCHANGED <<sy_vars, g_vars, w_vars, m_vars>>

ScDone == sc_pc = Len(ScriptSteps) + 1

(***************************************************************************)
(* generate_jj_config                                                      *)
(***************************************************************************)
\* the characters of tool names, in ascending code point order
Alphabet == "-.0123456789ABCDEFGHIJKLMNOPQRSTUVWXYZ_abcdefghijklmnopqrstuvwxyz"

ord(ch) == CHOOSE i \in 1..Len(Alphabet) : SubSeq(Alphabet, i, i) = ch

\* Python's a < b on str: the first differing character decides, a proper
\* prefix is smaller
RECURSIVE str_lt(_, _)
str_lt(a, b) ==
    IF Len(b) = 0 THEN FALSE
    ELSE IF Len(a) = 0 THEN TRUE
    ELSE IF SubSeq(a, 1, 1) = SubSeq(b, 1, 1) THEN str_lt(From(a, 2), From(b, 2))
    ELSE ord(SubSeq(a, 1, 1)) < ord(SubSeq(b, 1, 1))

\* sorted(formatters.items()): the names are distinct, so the names decide
RECURSIVE sorted(_)
sorted(formatters) ==
    IF Len(formatters) = 0 THEN <<>>
    ELSE LET least == CHOOSE i \in 1..Len(formatters) :
                          \A j \in 1..Len(formatters) :
                              j # i => str_lt(formatters[i].name, formatters[j].name)
             others == [k \in 1..(Len(formatters) - 1) |->
                          IF k < least THEN formatters[k] ELSE formatters[k + 1]]
         IN  <<formatters[least]>> \o sorted(others)

glob_to_jj_pattern(pattern) ==
    IF startswith(pattern, "**/") THEN "glob:'" \o pattern \o "'"
    ELSE IF startswith(pattern, "*.") THEN "glob:'**/" \o pattern \o "'"
    ELSE "glob:'" \o pattern \o "'"

\* faulty variant: global excludes chained before the tool's
patterns_ofMutant(includes, excludes, global_excludes) ==
    LET all_excludes == global_excludes \o excludes
        exclude_patterns ==
            join(" ~ ", [i \in 1..Len(all_excludes) |-> glob_to_jj_pattern(all_excludes[i])])
    IN  [i \in 1..Len(includes) |->
            IF Len(all_excludes) > 0
            THEN "(" \o glob_to_jj_pattern(includes[i]) \o " ~ " \o exclude_patterns \o ")"
            ELSE glob_to_jj_pattern(includes[i])]

\* the patterns of one tool
patterns_of(includes, excludes, global_excludes) ==
    LET all_excludes == excludes \o global_excludes
        exclude_patterns ==
            join(" ~ ", [i \in 1..Len(all_excludes) |-> glob_to_jj_pattern(all_excludes[i])])
    IN  [i \in 1..Len(includes) |->
            IF Len(all_excludes) > 0
            THEN "(" \o glob_to_jj_pattern(includes[i]) \o " ~ " \o exclude_patterns \o ")"
            ELSE glob_to_jj_pattern(includes[i])]

to_toml_array(items) ==
    "[" \o join(", ", [i \in 1..Len(items) |->
                          "\"" \o replace(replace(items[i], "\\", "\\\\"), "\"", "\\\"") \o "\""])
    \o "]"

\* faulty variant: the allow-list is not consulted
skippedAllowListMutant(n, config, only) ==
    \/ n \in EXCLUDED_TOOLS
    \/ config.command = ""
    \/ Len(config.includes) = 0

\* faulty variant: a tool with no includes is kept
skippedIncludesMutant(n, config, only) ==
    \/ n \in EXCLUDED_TOOLS
    \/ only.given /\ n \notin only.names
    \/ config.command = ""

\* the `continue`s of the loop over the declared tools
skipped(n, config, only) ==
    \/ n \in EXCLUDED_TOOLS
    \/ only.given /\ n \notin only.names
    \/ config.command = ""
    \/ Len(config.includes) = 0

\* a tool's resolved command and patterns
rule_of(n, config, global_excludes) ==
    [name |-> n,
     command |-> get_stdin_command(n, config.command, config.options, wrapper_type_of(n), mktemp_cmd),
     patterns |-> patterns_of(config.includes, config.excludes, global_excludes)]

\* the tools the loop emits a stanza for, in the order it emits them
RECURSIVE rules_from(_, _, _)
rules_from(items, only, global_excludes) ==
    IF Len(items) = 0 THEN <<>>
    ELSE (IF skipped(items[1].name, items[1].config, only) THEN <<>>
          ELSE <<rule_of(items[1].name, items[1].config, global_excludes)>>)
         \o rules_from(Tail(items), only, global_excludes)

generate_rules(config, only) ==
    rules_from(sorted(config.formatter), only, config.global_excludes)

RECURSIVE stanzas(_)
stanzas(rs) ==
    IF Len(rs) = 0 THEN <<>>
    ELSE <<"[fix.tools." \o rs[1].name \o "]",
           "command = " \o to_toml_array(rs[1].command),
           "patterns = " \o to_toml_array(rs[1].patterns),
           "">> \o stanzas(Tail(rs))

\* the lines of the output, given the tools emitted
lines_of(rs) == <<"# Generated by jmt", "# Do not edit manually", "">> \o stanzas(rs)

generate_lines(config, only) == lines_of(generate_rules(config, only))

generate_jj_config(config, only) == join("\n", generate_lines(config, only))

GIdle ==
    /\ g_pc = "idle"
    /\ treefmt_config = [formatter |-> <<>>, global_excludes |-> <<>>]
    /\ only_tools = [given |-> FALSE, names |-> {}]
    /\ rules = <<>>
    /\ lines = <<>>

GNames == {"nixfmt", "shellcheck", "deadnix", "nix"}

Globs == {"*.py", "**/*.md", "docs/a.txt"}

ExGlobs == {"vendor/*.py", "*.generated.py"}

\* only_tools is None
NoOnly == [given |-> FALSE, names |-> {}]

\* a tool as treefmt.toml declares it; an absent key reads as its default
Tool(n, c, opts, incs, excs) ==
    [name |-> n,
     config |-> [command |-> c, options |-> opts, includes |-> incs, excludes |-> excs]]

\* one tool, with every combination of includes, excludes and global excludes
OneToolConfigs ==
    {[formatter |-> <<Tool("ruff-format", "/bin/ruff", <<"format", "--fix">>, incs, excs)>>,
      global_excludes |-> gex] :
        incs \in SeqsUpTo(Globs, MaxGlobs),
        excs \in SeqsUpTo(ExGlobs, MaxGlobs),
        gex \in SeqsUpTo(ExGlobs, MaxGlobs)}

SimpleConfigs ==
    {[command |-> "/bin/fmt", options |-> <<>>, includes |-> <<"*.nix">>, excludes |-> <<>>],
     [command |-> "", options |-> <<>>, includes |-> <<"*.nix">>, excludes |-> <<>>],
     [command |-> "/bin/fmt", options |-> <<>>, includes |-> <<>>, excludes |-> <<>>]}

\* up to MaxTools tools of distinct names, in any declaration order
ManyToolConfigs ==
    {[formatter |-> [i \in 1..x[1] |-> [name |-> x[2][i], config |-> x[3][i]]],
      global_excludes |-> <<>>] :
        x \in UNION {{<<k, ns, cs>> :
                         ns \in {f \in [1..k -> GNames] : \A i, j \in 1..k : i # j => f[i] # f[j]},
                         cs \in [1..k -> SimpleConfigs]} : k \in 0..MaxTools}}

AllowLists ==
    {NoOnly} \cup {[given |-> TRUE, names |-> S] : S \in SUBSET {"nixfmt", "shellcheck", "other"}}

GInit ==
    /\ g_pc = "call"
    /\ \/ treefmt_config \in OneToolConfigs /\ only_tools = NoOnly
       \/ treefmt_config \in ManyToolConfigs /\ only_tools \in AllowLists
    /\ rules = <<>>
    /\ lines = <<>>

\* generate_jj_config(treefmt_config, only_tools); `rules` keeps the name, cmd
\* and patterns of each iteration that emitted a stanza
Generate ==
    /\ g_pc = "call"
    /\ rules' = generate_rules(treefmt_config, only_tools)
    /\ lines' = lines_of(rules')
    /\ g_pc' = "returned"
    /\ UNCHANGED <<treefmt_config, only_tools>>
    /\ UNCHANGED <<sy_vars, sc_vars, w_vars, m_vars>>

(***************************************************************************)
(* write_jj_config                                                         *)
(***************************************************************************)
marker == "# Generated by jmt"

Whitespace == {" ", "\n", "\t", "\r"}

RECURSIVE rstrip(_)
rstrip(s) ==
    IF Len(s) > 0 /\ SubSeq(s, Len(s), Len(s)) \in Whitespace
    THEN rstrip(Before(s, Len(s)))
    ELSE s

\* existing.strip() is truthy
HasText(s) == Len(rstrip(s)) > 0

\* re.search(r"\n\[(?!fix\.tools\.)", rest): the positions it can match at
SectionStarts(rest) ==
    {i \in Occurrences(rest, "\n[") : ~startswith(From(rest, i + 2), "fix.tools.")}

\* `existing` with the old generated section removed
without_old_section(existing) ==
    IF Occurrences(existing, marker) = {} THEN existing
    ELSE LET start_idx == Min(Occurrences(existing, marker))
             rest == From(existing, start_idx)
         IN  IF SectionStarts(rest) # {}
             THEN Before(existing, start_idx)
                  \o From(existing, start_idx + Min(SectionStarts(rest)) - 1)
             ELSE Before(existing, start_idx)

new_content(existing, config) ==
    IF HasText(without_old_section(existing))
    THEN rstrip(without_old_section(existing)) \o "\n\n" \o config
    ELSE config

WIdle ==
    /\ w_pc = "idle" /\ jj_repo = FALSE /\ jj_config = None /\ hand_written = {}
    /\ last_config = "" /\ writes = 0 /\ edits = 0

\* what the user keeps in config.toml by hand
HandWritten ==
    {"[ui]\ncolor = \"always\"",
     "# my note",
     "[fix.tools.mine]\ncommand = [\"mine\"]\npatterns = [\"all()\"]"}

\* the generated configurations written
WConfigs ==
    {generate_jj_config([formatter |-> fs, global_excludes |-> <<>>], NoOnly) :
        fs \in {<<>>,
                <<Tool("nixfmt", "nixfmt", <<>>, <<"*.nix">>, <<>>)>>,
                <<Tool("shfmt", "shfmt", <<"-i", "2">>, <<"*.sh">>, <<>>),
                  Tool("nixfmt", "nixfmt", <<>>, <<"*.nix">>, <<>>)>>}}

WInit ==
    /\ w_pc = "ready"
    /\ jj_repo \in BOOLEAN
    /\ \/ jj_config = None /\ hand_written = {}
       \/ \E h \in HandWritten : jj_config = h \o "\n" /\ hand_written = {h}
    /\ last_config = ""
    /\ writes = 0
    /\ edits = 0

\* write_jj_config(config, flake_root) where get_jj_repo_path finds no repository
WriteNoRepo ==
    /\ w_pc \in {"ready", "written"}
    /\ ~jj_repo
    /\ writes < MaxWrites
    /\ writes' = writes + 1
    /\ w_pc' = "failed"
    /\ UNCHANGED <<jj_repo, jj_config, hand_written, last_config, edits>>
    /\ UNCHANGED <<sy_vars, sc_vars, g_vars, m_vars>>

\* write_jj_config(config, flake_root) in a jj repository
WriteConfig ==
    /\ w_pc \in {"ready", "written"}
    /\ jj_repo
    /\ writes < MaxWrites
    /\ \E config \in WConfigs :
        /\ jj_config' = new_content(IF jj_config = None THEN "" ELSE jj_config, config)
        /\ last_config' = config
    /\ writes' = writes + 1
    /\ w_pc' = "written"
    /\ UNCHANGED <<jj_repo, hand_written, edits>>
    /\ UNCHANGED <<sy_vars, sc_vars, g_vars, m_vars>>

\* between two runs the user adds a section or a comment at the end of the file
UserAppends ==
    /\ w_pc \in {"ready", "written"}
    /\ jj_repo
    /\ edits < MaxEdits
    /\ \E h \in HandWritten \ hand_written :
        /\ jj_config' = (IF jj_config = None THEN "" ELSE jj_config \o "\n") \o h \o "\n"
        /\ hand_written' = hand_written \cup {h}
    /\ edits' = edits + 1
    /\ UNCHANGED <<w_pc, jj_repo, last_config, writes>>
    /\ UNCHANGED <<sy_vars, sc_vars, g_vars, m_vars>>

(***************************************************************************)
(* main                                                                    *)
(***************************************************************************)
MIdle ==
    /\ m_pc = "idle" /\ argv = <<>> /\ jmt_args = <<>> /\ jj_args = <<>>
    /\ m_log = <<>> /\ exit_code = -1

Args == {"--print", "--sync", "--list", "--", "-r"}

\* parse_args: the arguments before the first "--" are jmt's, those after it jj's
parse_args(args) ==
    IF "--" \in Range(args)
    THEN LET idx == Min({i \in 1..Len(args) : args[i] = "--"})
         IN  <<SubSeq(args, 1, idx - 1), SubSeq(args, idx + 1, Len(args))>>
    ELSE <<args, <<>>>>

print_only == "--print" \in Range(jmt_args)
sync_only == "--sync" \in Range(jmt_args)
list_only == "--list" \in Range(jmt_args)

MInit ==
    /\ m_pc = "start"
    /\ argv \in SeqsUpTo(Args, MaxArgs)
    /\ jmt_args = <<>>
    /\ jj_args = <<>>
    /\ m_log = <<>>
    /\ exit_code = -1

Did(step, ok) == m_log' = Append(m_log, <<step, ok>>)

Return(code) == m_pc' = "done" /\ exit_code' = code

\* faulty variant: the result of write_jj_config is ignored
after_writeMutant(written) == "jj_fix"

\* where main goes once write_jj_config returned
after_write(written) == IF written THEN "jj_fix" ELSE "return 1"

\* parse_args() and find_flake_root()
FindFlakeRoot ==
    /\ m_pc = "start"
    /\ jmt_args' = parse_args(argv)[1]
    /\ jj_args' = parse_args(argv)[2]
    /\ \E found \in BOOLEAN :
        /\ Did("find_flake_root", found)
        /\ IF found THEN m_pc' = "needs_rebuild" /\ exit_code' = exit_code
           ELSE Return(1)
    /\ UNCHANGED argv
    /\ UNCHANGED <<sy_vars, sc_vars, g_vars, w_vars>>

\* needs_rebuild(flake_root, cache_path)
NeedsRebuild ==
    /\ m_pc = "needs_rebuild"
    /\ \E stale \in BOOLEAN :
        /\ Did("needs_rebuild", stale)
        /\ m_pc' = IF stale THEN "build" ELSE "find_config"
    /\ UNCHANGED <<argv, jmt_args, jj_args, exit_code>>
    /\ UNCHANGED <<sy_vars, sc_vars, g_vars, w_vars>>

\* build_formatter(flake_root, cache_path)
BuildFormatter ==
    /\ m_pc = "build"
    /\ \E built \in BOOLEAN :
        /\ Did("build_formatter", built)
        /\ IF built THEN m_pc' = "find_config" /\ exit_code' = exit_code
           ELSE Return(1)
    /\ UNCHANGED <<argv, jmt_args, jj_args>>
    /\ UNCHANGED <<sy_vars, sc_vars, g_vars, w_vars>>

\* find_treefmt_config(cache_path), then parse_treefmt_config(config_path)
FindTreefmtConfig ==
    /\ m_pc = "find_config"
    /\ \E found \in BOOLEAN :
        /\ Did("find_treefmt_config", found)
        /\ IF found THEN m_pc' = "list_or_generate" /\ exit_code' = exit_code
           ELSE Return(1)
    /\ UNCHANGED <<argv, jmt_args, jj_args>>
    /\ UNCHANGED <<sy_vars, sc_vars, g_vars, w_vars>>

\* list mode: list_tools(treefmt_config) and return 0
ListTools ==
    /\ m_pc = "list_or_generate"
    /\ list_only
    /\ Did("list_tools", TRUE)
    /\ Return(0)
    /\ UNCHANGED <<argv, jmt_args, jj_args>>
    /\ UNCHANGED <<sy_vars, sc_vars, g_vars, w_vars>>

\* generate_jj_config(treefmt_config, only_tools)
GenerateJjConfig ==
    /\ m_pc = "list_or_generate"
    /\ ~list_only
    /\ Did("generate_jj_config", TRUE)
    /\ m_pc' = "output"
    /\ UNCHANGED <<argv, jmt_args, jj_args, exit_code>>
    /\ UNCHANGED <<sy_vars, sc_vars, g_vars, w_vars>>

\* print mode: print(jj_config) and return 0
PrintConfig ==
    /\ m_pc = "output"
    /\ print_only
    /\ Did("print", TRUE)
    /\ Return(0)
    /\ UNCHANGED <<argv, jmt_args, jj_args>>
    /\ UNCHANGED <<sy_vars, sc_vars, g_vars, w_vars>>

\* write_jj_config(jj_config, flake_root)
WriteJjConfig ==
    /\ m_pc = "output"
    /\ ~print_only
    /\ \E written \in BOOLEAN :
        /\ Did("write_jj_config", written)
        /\ IF after_write(written) = "return 1" THEN Return(1)
           ELSE m_pc' = after_write(written) /\ exit_code' = exit_code
    /\ UNCHANGED <<argv, jmt_args, jj_args>>
    /\ UNCHANGED <<sy_vars, sc_vars, g_vars, w_vars>>

\* run_jj_fix(flake_root, jj_args) and return its exit status
RunJjFix ==
    /\ m_pc = "jj_fix"
    /\ ~sync_only
    /\ \E status \in {0, 1, 2} :
        /\ Did("run_jj_fix", status = 0)
        /\ Return(status)
    /\ UNCHANGED <<argv, jmt_args, jj_args>>
    /\ UNCHANGED <<sy_vars, sc_vars, g_vars, w_vars>>

\* --sync: print "Done!" and return 0
SyncDone ==
    /\ m_pc = "jj_fix"
    /\ sync_only
    /\ Return(0)
    /\ UNCHANGED <<argv, jmt_args, jj_args, m_log>>
    /\ UNCHANGED <<sy_vars, sc_vars, g_vars, w_vars>>

(***************************************************************************)
(* The specifications: one for each part of the program.                   *)
(***************************************************************************)
NextSynth == CallInline \/ CallDirect

InitSynth == SyInit /\ ScIdle /\ GIdle /\ WIdle /\ MIdle

SpecSynth == InitSynth /\ [][NextSynth]_vars

NextScript == Mktemp \/ CatIn \/ RunTool \/ CatOut \/ Rm

InitScript == SyIdle /\ ScInit /\ GIdle /\ WIdle /\ MIdle

SpecScript == InitScript /\ [][NextScript]_vars

NextGen == Generate

InitGen == SyIdle /\ ScIdle /\ GInit /\ WIdle /\ MIdle

SpecGen == InitGen /\ [][NextGen]_vars

NextWrite == WriteNoRepo \/ WriteConfig \/ UserAppends

InitWrite == SyIdle /\ ScIdle /\ GIdle /\ WInit /\ MIdle

SpecWrite == InitWrite /\ [][NextWrite]_vars

NextMain ==
    \/ FindFlakeRoot \/ NeedsRebuild \/ BuildFormatter \/ FindTreefmtConfig
    \/ ListTools \/ GenerateJjConfig \/ PrintConfig \/ WriteJjConfig
    \/ RunJjFix \/ SyncDone

InitMain == SyIdle /\ ScIdle /\ GIdle /\ WIdle /\ MInit

SpecMain == InitMain /\ [][NextMain]_vars

Init == InitSynth \/ InitScript \/ InitGen \/ InitWrite \/ InitMain

Next == NextSynth \/ NextScript \/ NextGen \/ NextWrite \/ NextMain

Spec == Init /\ [][Next]_vars

(***************************************************************************)
(* The properties checked.                                                 *)
(***************************************************************************)
\* seq without its elements in S, written out as a recursion
RECURSIVE Without(_, _)
Without(seq, S) ==
    IF Len(seq) = 0 THEN <<>>
    ELSE (IF Head(seq) \in S THEN <<>> ELSE <<Head(seq)>>) \o Without(Tail(seq), S)

Contains(s, sub) == Occurrences(s, sub) # {}

\* C1: when the script of a WrappedPassthrough tool has run, its
\* standard output is exactly the input it read, whether the tool left the
\* temp file alone, rewrote it or failed, and what the tool printed is on the
\* diagnostic stream only.
C1_PassthroughEmitsOriginal ==
    (ScDone /\ mode = "passthrough") =>
        /\ stdout = stdin
        /\ Contains(stderr, tool_said)

\* C2: when the script has run, in either mode and whatever the tool's exit
\* status, the temp file does not exist; the file is removed by the script's
\* last step only, after the content was emitted.
C2_TempFileRemovedAfterEmit ==
    /\ ScDone => (t = None /\ "cat_out" \in Range(sc_log) /\ "rm" \in Range(sc_log))
    /\ \A i \in 1..Len(sc_log) :
           sc_log[i] = "rm" => \E j \in 1..(i - 1) : sc_log[j] = "cat_out"
    /\ ("mktemp" \in Range(sc_log) /\ "cat_out" \notin Range(sc_log)) => t # None

C2_Witness ==
    /\ ScDone /\ ~tool_exit_zero /\ t = None
    /\ mode = "edit" /\ stdin = "a\n" /\ stdout = "fixed\n"

\* the fileset query each glob of the model resolves to
ResolvedGlob ==
    "*.py" :> "glob:'**/*.py'" @@
    "**/*.md" :> "glob:'**/*.md'" @@
    "docs/a.txt" :> "glob:'docs/a.txt'" @@
    "*.nix" :> "glob:'**/*.nix'" @@
    "vendor/*.py" :> "glob:'vendor/*.py'" @@
    "*.generated.py" :> "glob:'**/*.generated.py'"

\* query ~ e1 ~ e2 ~ ..., chained left to right
RECURSIVE Chained(_, _)
Chained(query, excs) ==
    IF Len(excs) = 0 THEN query
    ELSE Chained(query \o " ~ " \o ResolvedGlob[Head(excs)], Tail(excs))

ExpectedPattern(inc, excs, gexs) ==
    IF Len(excs) + Len(gexs) = 0 THEN ResolvedGlob[inc]
    ELSE "(" \o Chained(Chained(ResolvedGlob[inc], excs), gexs) \o ")"

Declared(n) == CHOOSE f \in Range(treefmt_config.formatter) : f.name = n

ScenarioC ==
    /\ Len(treefmt_config.formatter) = 1
    /\ treefmt_config.formatter[1].config.includes = <<"*.py">>
    /\ treefmt_config.formatter[1].config.excludes = <<"vendor/*.py">>
    /\ treefmt_config.global_excludes = <<"*.generated.py">>

\* C3 as stated: Scenario C (include *.py, tool exclude vendor/*.py, global
\* exclude *.generated.py) yields the single pattern
\* (glob:'**/*.py' ~ glob:'vendor/*.py' ~ glob:'*.generated.py').
C3_ScenarioCAsStated ==
    (g_pc = "returned" /\ ScenarioC) =>
        rules[1].patterns =
            <<"(glob:'**/*.py' ~ glob:'vendor/*.py' ~ glob:'*.generated.py')">>

\* C3 (amended): every emitted tool has one pattern for each include, in order:
\* the resolved include alone when the tool has no exclude and no global
\* exclude, else "(" resolved include ~ each tool exclude ~ each global
\* exclude ")", in declaration order, every exclude resolved like an include
\* (a glob starting with *. gets the prefix **/); Scenario C yields
\* (glob:'**/*.py' ~ glob:'vendor/*.py' ~ glob:'**/*.generated.py').
C3_PatternsChainExcludes ==
    g_pc = "returned" =>
        /\ \A r \in Range(rules) :
               LET c == Declared(r.name).config
               IN  /\ Len(r.patterns) = Len(c.includes)
                   /\ \A i \in 1..Len(c.includes) :
                          r.patterns[i] =
                              ExpectedPattern(c.includes[i], c.excludes, treefmt_config.global_excludes)
        /\ ScenarioC =>
               /\ Len(rules) = 1
               /\ rules[1].patterns =
                      <<"(glob:'**/*.py' ~ glob:'vendor/*.py' ~ glob:'**/*.generated.py')">>
               /\ Contains(lines[6], "patterns = [\"(glob:'**/*.py' ~ glob:'vendor/*.py'")

C3_Witness ==
    /\ g_pc = "returned"
    /\ ScenarioC
    /\ Len(rules) = 1
    /\ Len(rules[1].patterns) = 1

\* the in-place flags the direct path always strips
StaticInplaceFlags == {"-w", "--write", "-e", "--edit", "--fix", "--inplace"}

\* the last path component of each command of the model
BaseName ==
    "nixfmt" :> "nixfmt" @@
    "/nix/store/s1-typstyle/bin/typstyle" :> "typstyle" @@
    "bin/prettier" :> "prettier" @@
    "deadnix" :> "deadnix" @@
    "/usr/bin/shellcheck" :> "shellcheck" @@
    "tofu" :> "tofu"

Quoted(opts) == [i \in 1..Len(opts) |-> "\"" \o opts[i] \o "\""]

\* C4 as stated: the options the wrapped path passes to the tool are those the
\* direct path keeps for the same options.
C4_SameFlagsStripped ==
    (sy_pc = "returned" /\ UsesWrapper(name, wrapper_type)) =>
        filtered_opts = StdinFilter(command, options)

\* C4 (amended): the wrapped path strips -w and --write and nothing else, and
\* passes the rest to the tool in order, each in double quotes; the direct
\* path strips these and also -e, --edit, --fix, --inplace (and -i for a
\* command named in INPLACE_SHORT_FLAG), so what it keeps is what the wrapped
\* path keeps without those flags.
C4_WrappedStripsWriteOnly ==
    (sy_pc = "returned" /\ UsesWrapper(name, wrapper_type)) =>
        /\ filtered_opts = Without(options, {"-w", "--write"})
        /\ Len(cmd) = 3
        /\ Contains(cmd[3], "; " \o command \o " "
                            \o join(" ", Quoted(Without(options, {"-w", "--write"})))
                            \o " \"$t\" >")
        /\ StdinFilter(command, options) =
               Without(filtered_opts,
                       {"-e", "--edit", "--fix", "--inplace"}
                       \cup (IF BaseName[command] = "typstyle" THEN {"-i"} ELSE {}))

C4_Witness ==
    /\ sy_pc = "returned"
    /\ UsesWrapper(name, wrapper_type)
    /\ options = <<"--write", "--edit">>
    /\ filtered_opts = <<"--edit">>

\* C5 as stated: on the direct path the options of the argv are the options not
\* in the static in-place list, and -i is dropped exactly when the tool's name
\* is in INPLACE_SHORT_FLAG.
C5_ShortFlagByToolName ==
    (sy_pc = "returned" /\ ~UsesWrapper(name, wrapper_type)) =>
        SubSeq(cmd, 2, 1 + Len(filtered_opts)) =
            Without(options,
                    StaticInplaceFlags \cup (IF name \in {"typstyle"} THEN {"-i"} ELSE {}))

\* C5 (amended): on the direct path the argv is the command, then the options
\* not in the applicable set in their original order, then the stdin
\* arguments; the applicable set is the static in-place list plus -i exactly
\* when the base name of the tool's command is in INPLACE_SHORT_FLAG.
\* ["--write", "--tab-width=2"] becomes ["--tab-width=2"].
C5_ShortFlagByCommandName ==
    (sy_pc = "returned" /\ ~UsesWrapper(name, wrapper_type)) =>
        LET kept == Without(options,
                            StaticInplaceFlags
                            \cup (IF BaseName[command] = "typstyle" THEN {"-i"} ELSE {}))
        IN  /\ filtered_opts = kept
            /\ Len(cmd) >= 1 + Len(kept)
            /\ cmd[1] = command
            /\ SubSeq(cmd, 2, 1 + Len(kept)) = kept
            /\ options = <<"--write", "--tab-width=2">> => kept = <<"--tab-width=2">>

C5_Witness ==
    /\ sy_pc = "returned"
    /\ ~UsesWrapper(name, wrapper_type)
    /\ name = "nixfmt"
    /\ command = "/nix/store/s1-typstyle/bin/typstyle"
    /\ options = <<"-i", "--tab-width=2">>
    /\ cmd = <<command, "--tab-width=2">>

InNoTable(n) ==
    /\ n \notin DOMAIN STDIN_ARGS
    /\ n \notin NEEDS_WRAPPER
    /\ n \notin PASSTHROUGH_LINTERS
    /\ n \notin INPLACE_SHORT_FLAG

\* C6 as stated: a tool whose name is in no static table gets the argv
\* [command, options without the generic in-place flags], whatever its command.
C6_UnknownNameIsGeneric ==
    (sy_pc = "returned" /\ InNoTable(name)) =>
        cmd = <<command>> \o Without(options, StaticInplaceFlags)

\* C6 (amended): a tool whose name and whose command's base name are both in
\* no static table gets the argv [command, options without the generic
\* in-place flags], with no stdin argument appended, whatever its options.
C6_UnknownNameAndCommandIsGeneric ==
    (sy_pc = "returned" /\ InNoTable(name) /\ InNoTable(BaseName[command])) =>
        cmd = <<command>> \o Without(options, StaticInplaceFlags)

C6_Witness ==
    /\ sy_pc = "returned"
    /\ name = "myfmt"
    /\ command = "nixfmt"
    /\ options = <<"--fix", "-i">>
    /\ cmd = <<"nixfmt", "-i">>

\* the tool names of the model in ascending lexicographic order
NameRank == "deadnix" :> 1 @@ "nix" :> 2 @@ "nixfmt" :> 3 @@ "shellcheck" :> 4

\* the tools a stanza is due for
Emitted ==
    {f.name : f \in {d \in Range(treefmt_config.formatter) :
                        /\ d.name \notin EXCLUDED_TOOLS
                        /\ only_tools.given => d.name \in only_tools.names
                        /\ d.config.command # ""
                        /\ d.config.includes # <<>>}}

SectionLines == SelectSeq(lines, LAMBDA l : startswith(l, "["))

\* C7: the stanzas emitted are those of the declared tools that are in the
\* allow-list (when one is given), are not in EXCLUDED_TOOLS and have a command
\* and includes; each tool has one stanza and the stanzas are in ascending
\* lexicographic order of tool name.
C7_AllowListAndOrder ==
    g_pc = "returned" =>
        /\ {rules[i].name : i \in 1..Len(rules)} = Emitted
        /\ \A i, j \in 1..Len(rules) :
               i < j => NameRank[rules[i].name] < NameRank[rules[j].name]
        /\ SectionLines = [i \in 1..Len(rules) |-> "[fix.tools." \o rules[i].name \o "]"]

\* Scenario D: two tools declared, out of order, and the allow-list {nixfmt}
C7_Witness ==
    /\ g_pc = "returned"
    /\ only_tools = [given |-> TRUE, names |-> {"nixfmt"}]
    /\ Len(treefmt_config.formatter) = 2
    /\ treefmt_config.formatter[1].name = "shellcheck"
    /\ treefmt_config.formatter[1].config.includes # <<>>
    /\ treefmt_config.formatter[1].config.command # ""
    /\ Len(rules) = 1
    /\ rules[1].name = "nixfmt"

\* C8: every stanza has a command array and a patterns array with at least
\* one element each, and a tool declared with no includes has no stanza.
C8_NoEmptyArrays ==
    g_pc = "returned" =>
        /\ \A r \in Range(rules) :
               /\ Len(r.command) > 0
               /\ r.command[1] # ""
               /\ Len(r.patterns) > 0
        /\ \A i \in 1..Len(lines) :
               /\ lines[i] # "patterns = []"
               /\ lines[i] # "command = []"
        /\ \A d \in Range(treefmt_config.formatter) :
               d.config.includes = <<>> => \A r \in Range(rules) : r.name # d.name

C8_Witness ==
    /\ g_pc = "returned"
    /\ only_tools = NoOnly
    /\ Len(treefmt_config.formatter) = 2
    /\ treefmt_config.formatter[1].config.includes = <<>>
    /\ treefmt_config.formatter[1].config.command # ""
    /\ Len(rules) = 1
    /\ rules[1].name = "shellcheck"
    /\ Len(rules[1].command) = 3

\* C9: after a write the file holds one generated block, that of the last
\* call, and whatever the user wrote by hand is still in it.
C9_HandWrittenPreserved ==
    w_pc = "written" =>
        /\ Cardinality(Occurrences(jj_config, marker)) = 1
        /\ Contains(jj_config, last_config)
        /\ \A h \in hand_written : Contains(jj_config, h)

\* the arguments before the first "--"
OwnArg(flag) ==
    \E i \in 1..Len(argv) : argv[i] = flag /\ \A j \in 1..i : argv[j] # "--"

Ran(step) == \E i \in 1..Len(m_log) : m_log[i][1] = step

\* C10: with --list or --print, write_jj_config and jj fix never run; jj fix
\* runs only right after a write_jj_config that succeeded, and never with
\* --sync; a step that fails is the last step of the run, which ends with
\* exit code 1.
C10_MainOrder ==
    /\ (OwnArg("--list") \/ OwnArg("--print")) =>
           ~Ran("write_jj_config") /\ ~Ran("run_jj_fix")
    /\ \A i \in 1..Len(m_log) :
           m_log[i][1] = "run_jj_fix" =>
               /\ i > 1
               /\ m_log[i - 1] = <<"write_jj_config", TRUE>>
               /\ ~OwnArg("--sync")
    /\ \A i \in 1..Len(m_log) :
           (/\ m_log[i][1] \in {"find_flake_root", "build_formatter",
                                "find_treefmt_config", "write_jj_config"}
            /\ ~m_log[i][2]) =>
               /\ i = Len(m_log)
               /\ m_pc = "done"
               /\ exit_code = 1

C10_Witness ==
    /\ m_pc = "done"
    /\ exit_code = 1
    /\ argv = <<"--", "--print">>
    /\ m_log[Len(m_log)] = <<"write_jj_config", FALSE>>

====
